---- MODULE Spec2Model ----
(***************************************************************************)
(* State-machine model of src/src/App.tsx: the theme cell and its          *)
(* localStorage persistence (ThemeProvider), the page cell                 *)
(* (RouterProvider), the theme dropdown (Header), the product hook of the  *)
(* home view (useProducts) with its outstanding requests, and the rendered *)
(* page (AppContent.renderPage, HomePage, AboutPage, ContactPage).         *)
(*                                                                         *)
(* A nullable string (localStorage.getItem's result, the hook's error) is  *)
(* a sequence of length at most one: <<>> is null, <<s>> is the string s.  *)
(*                                                                         *)
(* React runs the passive effects of a commit (useEffect callbacks) before *)
(* it renders any later update, children before parents.  The model keeps  *)
(* them as one step, FlushEffects, that is taken before any further event. *)
(***************************************************************************)
EXTENDS Naturals, Sequences, FiniteSets, TLC

\* Number of mounts of the home view (first loads, reloads and returns to home).
MaxMounts == 3
\* Largest number of products in a response body (the request asks for limit=8).
MaxProducts == 2

\* type ThemeType = 'theme1' | 'theme2' | 'theme3'
Themes ==
  {"theme1", "theme2", "theme3"}

\* The strings the 'app-theme' key may hold when the page starts: the three
\* identifiers, the empty string, and a string that is no identifier.
StoredStrings ==
  Themes \cup {"", "bogus"}

\* Arguments of navigate: the three nav items and an unrecognised page.
Pages ==
  {"home", "about", "contact", "unknown-page"}

ProductIds ==
  1 .. MaxProducts

\* Parsed response bodies: arrays of products with distinct ids, in server order.
Responses ==
  {s \in UNION {[1 .. n -> ProductIds] : n \in 0 .. MaxProducts} :
     \A i, j \in 1 .. Len(s) : i # j => s[i] # s[j]}

VARIABLES
  store,          \* localStorage['app-theme']: <<>> when absent, else <<string>>
  theme,          \* ThemeProvider's theme cell
  currentPage,    \* RouterProvider's currentPage cell
  dropdownOpen,   \* Header's dropdownOpen cell
  home,           \* the mounted HomePage's useProducts cells, or NoHome
  persistPending, \* ThemeProvider's effect is scheduled and has not run
  requests,       \* outstanding fetchProducts calls of this page load
  mountCount,     \* number of HomePage mounts so far
  issued,         \* per mount: number of fetch() calls its effect has made
  settled,        \* how the request of the mounted HomePage ended, <<>> if not yet
  failedSinceLoad, \* a request failed under its mounted HomePage since the page loaded
  selected,       \* the argument of the last setTheme call, <<>> before any
  lastOp          \* the last event handled (user event or network callback)

vars ==
  <<store, theme, currentPage, dropdownOpen, home, persistPending, requests,
    mountCount, issued, settled, failedSinceLoad, selected, lastOp>>

\* JavaScript truthiness of a nullable string: null and '' are falsy.
Truthy(s) ==
  s # <<>> /\ s[1] # ""

\* useState initializer of ThemeProvider: (saved as ThemeType) || 'theme1'
loadTheme(saved) ==
  IF Truthy(saved) THEN saved[1] ELSE "theme1"

\* saveTheme writing the name of the theme option instead of its id.
saveTheme_Name(t) ==
  IF t = "theme1" THEN <<"Light">>
  ELSE IF t = "theme2" THEN <<"Dark">>
  ELSE IF t = "theme3" THEN <<"Colorful">>
  ELSE <<t>>

\* localStorage.setItem('app-theme', theme): the key now holds the string.
saveTheme(t) ==
  <<t>>

\* The useState initial values of useProducts for the mount numbered m; the
\* hook's effect is scheduled by the mount.
MountHome(m) ==
  [mounted |-> TRUE, id |-> m, products |-> <<>>, loading |-> TRUE,
   error |-> <<>>, effectPending |-> TRUE]

\* No HomePage instance exists (about or contact is displayed).
NoHome ==
  [mounted |-> FALSE, id |-> 0, products |-> <<>>, loading |-> TRUE,
   error |-> <<>>, effectPending |-> FALSE]

\* switch (currentPage) of AppContent.renderPage
renderPage(p) ==
  IF p = "about" THEN "about"
  ELSE IF p = "contact" THEN "contact"
  ELSE "home"

\* switch (theme) of getThemeStyles: which of the three bundles is returned.
getThemeStyles(t) ==
  IF t = "theme1" THEN "theme1"
  ELSE IF t = "theme2" THEN "theme2"
  ELSE IF t = "theme3" THEN "theme3"
  ELSE "theme1"

\* Layout with ContactPage testing for the wrong identifier.
Layout_ContactWrong(page, t) ==
  IF page = "about"
    THEN IF t = "theme2" THEN "two-column" ELSE "single-column"
  ELSE IF page = "contact"
    THEN IF t = "theme3" THEN "two-column" ELSE "single-column"
  ELSE IF t = "theme2" THEN "two-column" ELSE "single-column"

\* if (theme === 'theme2') of HomePage, of AboutPage and of ContactPage
Layout(page, t) ==
  IF page = "about"
    THEN IF t = "theme2" THEN "two-column" ELSE "single-column"
  ELSE IF page = "contact"
    THEN IF t = "theme2" THEN "two-column" ELSE "single-column"
  ELSE IF t = "theme2" THEN "two-column" ELSE "single-column"

\* The sidebar lists of the three page components.
SidebarLabels(page) ==
  IF page = "about" THEN <<"Company", "Team", "Mission", "Values">>
  ELSE IF page = "contact" THEN <<"Support", "Sales", "Partnership", "Careers">>
  ELSE <<"Electronics", "Clothing", "Books", "Home & Garden">>

\* ProductCards drawing the list back to front.
ProductCards_Reversed(products) ==
  [i \in 1 .. Len(products) |->
     [key |-> products[Len(products) + 1 - i],
      product |-> products[Len(products) + 1 - i]]]

\* products.map(product => <ProductCard key={product.id} product={product} />)
ProductCards(products) ==
  [i \in 1 .. Len(products) |-> [key |-> products[i], product |-> products[i]]]

\* What AppContent draws for the current cells.
View ==
  LET page == renderPage(currentPage)
      isHome == page = "home"
  IN [page |-> page,
      styles |-> getThemeStyles(theme),
      layout |-> Layout(page, theme),
      sidebar |-> IF Layout(page, theme) = "two-column"
                    THEN SidebarLabels(page) ELSE <<>>,
      loadingShown |-> isHome /\ home.loading,
      errorShown |-> isHome /\ Truthy(home.error),
      errorText |-> IF isHome /\ Truthy(home.error) THEN home.error[1] ELSE "",
      cards |-> IF isHome THEN ProductCards(home.products) ELSE <<>>]

NoOp ==
  [op |-> "start", arg |-> "", mount |-> 0]

\* The state after the first render of <App />: cells hold their initial
\* values, HomePage is mounted, both effects are scheduled.
Init ==
  /\ store \in {<<>>} \cup {<<s>> : s \in StoredStrings}
  /\ theme = loadTheme(store)
  /\ currentPage = "home"
  /\ dropdownOpen = FALSE
  /\ home = MountHome(1)
  /\ persistPending = TRUE
  /\ requests = {}
  /\ mountCount = 1
  /\ issued = [m \in 1 .. MaxMounts |-> 0]
  /\ settled = <<>>
  /\ failedSinceLoad = FALSE
  /\ selected = <<>>
  /\ lastOp = NoOp

EffectsPending ==
  home.effectPending \/ persistPending

\* IssueRequests calling fetchProducts() twice for the mount.
IssueRequests_Twice(m) ==
  /\ requests' = requests \cup {[mount |-> m, stage |-> "fetching"]}
  /\ issued' = [issued EXCEPT ![m] = @ + 2]

\* fetchProducts() of the useProducts effect: one fetch() call for the mount.
IssueRequests(m) ==
  /\ requests' = requests \cup {[mount |-> m, stage |-> "fetching"]}
  /\ issued' = [issued EXCEPT ![m] = @ + 1]

\* The scheduled effects run: useProducts' effect of a new HomePage, then
\* ThemeProvider's effect.
FlushEffects ==
  /\ EffectsPending
  /\ IF home.effectPending
       THEN /\ IssueRequests(home.id)
            /\ home' = [home EXCEPT !.effectPending = FALSE]
       ELSE UNCHANGED <<requests, issued, home>>
  /\ IF persistPending
       THEN store' = saveTheme(theme)
       ELSE UNCHANGED store
  /\ persistPending' = FALSE
  /\ UNCHANGED <<theme, currentPage, dropdownOpen, mountCount, settled,
                 failedSinceLoad, selected, lastOp>>

\* onClick of the dropdown button: setDropdownOpen(!dropdownOpen)
ToggleDropdown ==
  /\ ~EffectsPending
  /\ dropdownOpen' = ~dropdownOpen
  /\ lastOp' = [op |-> "toggleDropdown", arg |-> "", mount |-> 0]
  /\ UNCHANGED <<store, theme, currentPage, home, persistPending, requests,
                 mountCount, issued, settled, failedSinceLoad, selected>>

\* SelectTheme with ThemeProvider's effect running at mount only.
SelectTheme_NoPersist(t) ==
  /\ ~EffectsPending
  /\ dropdownOpen
  /\ theme' = t
  /\ dropdownOpen' = FALSE
  /\ persistPending' = FALSE
  /\ selected' = <<t>>
  /\ lastOp' = [op |-> "selectTheme", arg |-> t, mount |-> 0]
  /\ UNCHANGED <<store, currentPage, home, requests, mountCount, issued, settled,
                 failedSinceLoad>>

\* SelectTheme with the two layouts of HomePage as two components: a switch
\* between theme2 and another theme replaces the mounted instance.
SelectTheme_Remount(t) ==
  /\ ~EffectsPending
  /\ dropdownOpen
  /\ theme' = t
  /\ dropdownOpen' = FALSE
  /\ persistPending' = (t # theme)
  /\ selected' = <<t>>
  /\ lastOp' = [op |-> "selectTheme", arg |-> t, mount |-> 0]
  /\ IF home.mounted /\ (t = "theme2") # (theme = "theme2")
       THEN /\ mountCount < MaxMounts
            /\ mountCount' = mountCount + 1
            /\ home' = MountHome(mountCount + 1)
            /\ settled' = <<>>
       ELSE UNCHANGED <<home, mountCount, settled>>
  /\ UNCHANGED <<store, currentPage, requests, issued, failedSinceLoad>>

\* onClick of a theme option: setTheme(themeOption.id); setDropdownOpen(false).
\* The effect of ThemeProvider is scheduled when the theme value changed.
SelectTheme(t) ==
  /\ ~EffectsPending
  /\ dropdownOpen
  /\ theme' = t
  /\ dropdownOpen' = FALSE
  /\ persistPending' = (t # theme)
  /\ selected' = <<t>>
  /\ lastOp' = [op |-> "selectTheme", arg |-> t, mount |-> 0]
  /\ UNCHANGED <<store, currentPage, home, requests, mountCount, issued, settled,
                 failedSinceLoad>>

\* Navigate ignoring a page that is none of the three nav items.
Navigate_Validating(p) ==
  /\ ~EffectsPending
  /\ currentPage' = IF p \in {"home", "about", "contact"} THEN p ELSE currentPage
  /\ IF renderPage(currentPage') = "home"
       THEN IF home.mounted
              THEN UNCHANGED <<home, mountCount, settled>>
              ELSE /\ mountCount < MaxMounts
                   /\ mountCount' = mountCount + 1
                   /\ home' = MountHome(mountCount + 1)
                   /\ settled' = <<>>
       ELSE /\ home' = NoHome
            /\ settled' = <<>>
            /\ UNCHANGED mountCount
  /\ lastOp' = [op |-> "navigate", arg |-> p, mount |-> 0]
  /\ UNCHANGED <<store, theme, dropdownOpen, persistPending, requests, issued,
                 failedSinceLoad, selected>>

\* Navigate with the page keyed by currentPage: every change of the cell
\* replaces the mounted page component.
Navigate_Remount(p) ==
  /\ ~EffectsPending
  /\ currentPage' = p
  /\ IF renderPage(p) = "home"
       THEN IF home.mounted /\ p = currentPage
              THEN UNCHANGED <<home, mountCount, settled>>
              ELSE /\ mountCount < MaxMounts
                   /\ mountCount' = mountCount + 1
                   /\ home' = MountHome(mountCount + 1)
                   /\ settled' = <<>>
       ELSE /\ home' = NoHome
            /\ settled' = <<>>
            /\ UNCHANGED mountCount
  /\ lastOp' = [op |-> "navigate", arg |-> p, mount |-> 0]
  /\ UNCHANGED <<store, theme, dropdownOpen, persistPending, requests, issued,
                 failedSinceLoad, selected>>

\* navigate(page): setCurrentPage(page).  renderPage keeps the HomePage
\* instance while it goes on returning <HomePage />, creates one when it
\* starts to, and drops it when it returns another page.
Navigate(p) ==
  /\ ~EffectsPending
  /\ currentPage' = p
  /\ IF renderPage(p) = "home"
       THEN IF home.mounted
              THEN UNCHANGED <<home, mountCount, settled>>
              ELSE /\ mountCount < MaxMounts
                   /\ mountCount' = mountCount + 1
                   /\ home' = MountHome(mountCount + 1)
                   /\ settled' = <<>>
       ELSE /\ home' = NoHome
            /\ settled' = <<>>
            /\ UNCHANGED mountCount
  /\ lastOp' = [op |-> "navigate", arg |-> p, mount |-> 0]
  /\ UNCHANGED <<store, theme, dropdownOpen, persistPending, requests, issued,
                 failedSinceLoad, selected>>

\* The message the catch block stores: err.message of the Error thrown by
\* line 258, of fetch's rejection or of response.json()'s rejection.
ErrorMessage(kind) ==
  IF kind = "not-ok" THEN "Failed to fetch products"
  ELSE IF kind = "network-error" THEN "Failed to fetch"
  ELSE "Unexpected token < in JSON at position 0"

\* Observed with the hook's cells shared by every HomePage instance.
Observed_AnyMount(r) ==
  home.mounted

\* The setters captured by the request r belong to the HomePage instance that
\* is mounted now; the setters of an unmounted instance do nothing.
Observed(r) ==
  home.mounted /\ home.id = r.mount

\* SetFailed with the catch block dropping the message.
SetFailed_NoError(h, msg) ==
  [h EXCEPT !.loading = FALSE]

\* catch: setError(message); finally: setLoading(false)
SetFailed(h, msg) ==
  [h EXCEPT !.error = <<msg>>, !.loading = FALSE]

\* setProducts(data); finally: setLoading(false)
SetSucceeded(h, data) ==
  [h EXCEPT !.products = data, !.loading = FALSE]

\* The request r ends in the catch block with the error of the given kind.
Fail(r, kind) ==
  /\ requests' = requests \ {r}
  /\ home' = IF Observed(r) THEN SetFailed(home, ErrorMessage(kind)) ELSE home
  /\ settled' = IF Observed(r)
                  THEN <<[kind |-> "failed", error |-> ErrorMessage(kind),
                          data |-> <<>>]>>
                  ELSE settled
  /\ failedSinceLoad' = (failedSinceLoad \/ Observed(r))

\* await fetch(...) settles: it rejects (network failure), or resolves with a
\* response whose ok flag is false (the code throws) or true (the code goes on
\* to await response.json()).
ReceiveResponse(r, outcome) ==
  /\ ~EffectsPending
  /\ r \in requests
  /\ r.stage = "fetching"
  /\ IF outcome = "ok"
       THEN /\ requests' = (requests \ {r}) \cup {[r EXCEPT !.stage = "parsing"]}
            /\ UNCHANGED <<home, settled, failedSinceLoad>>
       ELSE Fail(r, outcome)
  /\ lastOp' = [op |-> "receiveResponse", arg |-> outcome, mount |-> r.mount]
  /\ UNCHANGED <<store, theme, currentPage, dropdownOpen, persistPending,
                 mountCount, issued, selected>>

\* await response.json() rejects: the body is not JSON.
ParseFails(r) ==
  /\ ~EffectsPending
  /\ r \in requests
  /\ r.stage = "parsing"
  /\ Fail(r, "unparseable")
  /\ lastOp' = [op |-> "parseFails", arg |-> "unparseable", mount |-> r.mount]
  /\ UNCHANGED <<store, theme, currentPage, dropdownOpen, persistPending,
                 mountCount, issued, selected>>

\* await response.json() resolves with the array data.
ParseBody(r, data) ==
  /\ ~EffectsPending
  /\ r \in requests
  /\ r.stage = "parsing"
  /\ requests' = requests \ {r}
  /\ home' = IF Observed(r) THEN SetSucceeded(home, data) ELSE home
  /\ settled' = IF Observed(r)
                  THEN <<[kind |-> "succeeded", error |-> "", data |-> data]>>
                  ELSE settled
  /\ UNCHANGED failedSinceLoad
  /\ lastOp' = [op |-> "parseBody", arg |-> "ok", mount |-> r.mount]
  /\ UNCHANGED <<store, theme, currentPage, dropdownOpen, persistPending,
                 mountCount, issued, selected>>

\* The page is loaded again: every cell is rebuilt as at the first render, the
\* requests of the old page are gone with it, localStorage is kept.  Like the
\* other events it is taken once the effects of the last commit have run:
\* React runs them within the click that caused the commit, and right after
\* the first paint of a load.
Reload ==
  /\ ~EffectsPending
  /\ mountCount < MaxMounts
  /\ theme' = loadTheme(store)
  /\ currentPage' = "home"
  /\ dropdownOpen' = FALSE
  /\ mountCount' = mountCount + 1
  /\ home' = MountHome(mountCount + 1)
  /\ persistPending' = TRUE
  /\ requests' = {}
  /\ settled' = <<>>
  /\ failedSinceLoad' = FALSE
  /\ lastOp' = [op |-> "reload", arg |-> "", mount |-> mountCount + 1]
  /\ UNCHANGED <<store, issued, selected>>

Outcomes ==
  {"network-error", "not-ok", "ok"}

Next ==
  \/ FlushEffects
  \/ ToggleDropdown
  \/ \E t \in Themes : SelectTheme(t)
  \/ \E p \in Pages : Navigate(p)
  \/ \E r \in requests : \E o \in Outcomes : ReceiveResponse(r, o)
  \/ \E r \in requests : ParseFails(r)
  \/ \E r \in requests : \E d \in Responses : ParseBody(r, d)
  \/ Reload

Spec ==
  Init /\ [][Next]_vars

(***************************************************************************)
(* Steps, as seen from a pair of states.                                   *)
(***************************************************************************)
ResolveOps ==
  {"receiveResponse", "parseFails", "parseBody"}

ReloadStep ==
  lastOp'.op = "reload" /\ mountCount' = mountCount + 1

SelectStep ==
  lastOp'.op = "selectTheme" /\ dropdownOpen /\ ~dropdownOpen'

NavigateStep ==
  lastOp'.op = "navigate" /\ (lastOp' # lastOp \/ currentPage' # currentPage)

FlushStep ==
  EffectsPending /\ ~EffectsPending' /\ lastOp' = lastOp

ResolveStep ==
  lastOp'.op \in ResolveOps /\ lastOp' # lastOp

\* The fetch state of a HomePage instance, read from its three cells.
FetchState(h) ==
  IF h.loading THEN "pending"
  ELSE IF h.error # <<>> THEN "failed"
  ELSE "succeeded"

(***************************************************************************)
(* Claims                                                                  *)
(***************************************************************************)

\* C1: in every reachable state the current theme is one of the three fixed
\* identifiers theme1, theme2, theme3; an absent or unrecognised stored value
\* is replaced by theme1 at startup.
C1_ThemeIsOneOfThree ==
  theme \in Themes

\* C2: round-trip persistence: when the page is reloaded after selectTheme(x),
\* x one of the three identifiers, the theme after the reload is x.
C2_RoundTrip ==
  [][(ReloadStep /\ selected # <<>>)
       => (selected[1] \in Themes /\ theme' = selected[1])]_vars

\* C2 witness: the page was reloaded after theme3 had been selected over a
\* store that started with another value, and the theme is theme3.
C2_Witness ==
  /\ lastOp.op = "reload"
  /\ selected = <<"theme3">>
  /\ theme = "theme3"
  /\ persistPending

\* C3, state part: every mount of the home view has made exactly one request
\* once its effect has run and none before, and the three cells of the hook
\* never show two outcomes at once.
C3_OneRequestPerMount ==
  /\ \A m \in 1 .. MaxMounts :
       issued[m] = IF m > mountCount \/ (home.id = m /\ home.effectPending)
                     THEN 0 ELSE 1
  /\ home.mounted =>
       /\ home.loading => (home.error = <<>> /\ home.products = <<>>)
       /\ home.error # <<>> => home.products = <<>>
       /\ home.effectPending => FetchState(home) = "pending"

\* C3, step part: a new mount starts pending, and within one mount the hook
\* leaves pending at most once and never changes after it has.
C3_FetchStateStep ==
  /\ (home'.mounted /\ home'.id # home.id) => FetchState(home') = "pending"
  /\ (home.mounted /\ home'.mounted /\ home'.id = home.id
        /\ FetchState(home) # "pending")
       => /\ home'.loading = home.loading
          /\ home'.error = home.error
          /\ home'.products = home.products

\* C3: for every mount of the home view exactly one catalog request is issued;
\* the mount's fetch state starts as pending and then moves to exactly one of
\* succeeded or failed, never both and never back to pending during the same
\* mount, whatever navigate and selectTheme operations are interleaved.
C3_OneFetchPerMount ==
  []C3_OneRequestPerMount /\ [][C3_FetchStateStep]_vars

\* C3 witness: the second mount of the home view has made its one request and
\* has settled, after a theme selection.
C3_Witness ==
  /\ home.mounted
  /\ home.id = 2
  /\ issued[2] = 1
  /\ FetchState(home) = "succeeded"
  /\ selected # <<>>

\* C4: when the fetch of the mounted home view has failed, the product region
\* shows the error message and zero product cards, whatever the theme is and
\* however it was changed, and navigate and selectTheme are still accepted.
C4_FailureShown ==
  (home.mounted /\ settled # <<>> /\ settled[1].kind = "failed")
    => /\ View.page = "home"
       /\ View.errorShown
       /\ View.errorText = settled[1].error
       /\ View.cards = <<>>
       /\ ~View.loadingShown
       /\ ~EffectsPending =>
            /\ \A p \in Pages : ENABLED Navigate(p)
            /\ ENABLED ToggleDropdown
            /\ dropdownOpen => \A t \in Themes : ENABLED SelectTheme(t)

\* C4 witness: the response had a non-success status, and the theme was
\* changed to theme2 after the failure.
C4_Witness ==
  /\ home.mounted
  /\ settled # <<>>
  /\ settled[1].kind = "failed"
  /\ settled[1].error = "Failed to fetch products"
  /\ lastOp.op = "selectTheme"
  /\ theme = "theme2"
  /\ persistPending

\* C5: when the fetch of the mounted home view has succeeded with N products,
\* the product region shows exactly N cards, one per product, in the order of
\* the response, for every theme.
C5_CardsInResponseOrder ==
  (home.mounted /\ settled # <<>> /\ settled[1].kind = "succeeded")
    => /\ View.page = "home"
       /\ Len(View.cards) = Len(settled[1].data)
       /\ \A i \in 1 .. Len(settled[1].data) :
            View.cards[i].product = settled[1].data[i]
       /\ ~View.errorShown
       /\ ~View.loadingShown

\* C5 witness: a response of MaxProducts products, not in id order, is shown
\* under theme2.
C5_Witness ==
  /\ home.mounted
  /\ settled # <<>>
  /\ settled[1].kind = "succeeded"
  /\ Len(settled[1].data) = MaxProducts
  /\ settled[1].data[1] = MaxProducts
  /\ theme = "theme2"

\* The page the claim C6 expects for an argument of navigate.
C6_Expected(p) ==
  IF p = "about" THEN "about" ELSE IF p = "contact" THEN "contact" ELSE "home"

\* C6, state part: after navigate(p) the page cell holds p and the displayed
\* page is the expected one; home content is drawn by a mounted HomePage.
C6_AfterNavigate ==
  /\ lastOp.op = "navigate" =>
       /\ currentPage = lastOp.arg
       /\ View.page = C6_Expected(lastOp.arg)
  /\ (View.page = "home") = home.mounted

\* C6: navigate(p) sets the current page to p unconditionally; the displayed
\* page is about for 'about', contact for 'contact' and home for every other
\* p; navigate('about') then navigate('unknown-page') displays home content.
C6_NavigateFallsBackToHome ==
  /\ []C6_AfterNavigate
  /\ [][(lastOp.op = "navigate" /\ lastOp.arg = "about" /\ ~EffectsPending
           /\ lastOp'.op = "navigate" /\ lastOp'.arg = "unknown-page")
          => (currentPage' = "unknown-page" /\ View'.page = "home"
              /\ home'.mounted)]_vars

\* C6 witness: navigate('unknown-page') was handled while about was displayed.
C6_Witness ==
  /\ lastOp.op = "navigate"
  /\ lastOp.arg = "unknown-page"
  /\ currentPage = "unknown-page"
  /\ home.mounted
  /\ home.id = 2
  /\ home.effectPending
\* C7 as stated: once a product fetch has failed, the home page shows the
\* error message in every later state in which it is displayed, until the
\* application is reloaded.
C7_ErrorUntilReload ==
  (failedSinceLoad /\ View.page = "home") => View.errorShown

\* C7 as amended: once the home page shows the error message, it shows the
\* same message in every later state in which the home page is still
\* displayed, until the user navigates to about or contact or reloads.
C7_ErrorWhileHomeStays ==
  [][(View.errorShown /\ View'.page = "home" /\ ~ReloadStep)
       => (View'.errorShown /\ View'.errorText = View.errorText
           /\ View'.cards = <<>>)]_vars

\* C7 witness: the error is still shown after navigate('unknown-page') and a
\* change of theme that followed the failure.
C7_Witness ==
  /\ View.errorShown
  /\ failedSinceLoad
  /\ currentPage = "unknown-page"
  /\ lastOp.op = "selectTheme"
  /\ persistPending

\* C8: on each page the two-column layout (sidebar with the page's four
\* labels plus content pane) is rendered if and only if the theme is theme2,
\* every other theme renders the single-column layout, and the contact page
\* under theme2 has the labels Support, Sales, Partnership, Careers.
C8_LayoutByTheme ==
  /\ View.layout \in {"two-column", "single-column"}
  /\ (View.layout = "two-column") = (theme = "theme2")
  /\ theme = "theme2" => Len(View.sidebar) = 4
  /\ theme # "theme2" => View.sidebar = <<>>
  /\ (theme = "theme2" /\ View.page = "contact")
       => View.sidebar = <<"Support", "Sales", "Partnership", "Careers">>
  /\ (theme = "theme2" /\ View.page = "about")
       => View.sidebar # <<"Support", "Sales", "Partnership", "Careers">>

\* C8 witness: the contact page is displayed under theme2.
C8_Witness ==
  /\ theme = "theme2"
  /\ currentPage = "contact"
  /\ View.layout = "two-column"
  /\ selected = <<"theme2">>

\* C9: the resolution of a request whose home view is no longer mounted
\* changes neither the theme, the page, the persistent store, nor the
\* products, loading and error cells of the home view mounted now, nor what
\* is displayed.
C9_StaleFetchUnobserved ==
  [][(ResolveStep /\ lastOp'.mount # home.id)
       => /\ theme' = theme
          /\ currentPage' = currentPage
          /\ store' = store
          /\ home' = home
          /\ View' = View]_vars

\* C9 witness: the user left home with a request outstanding and came back;
\* the later request failed first, then the earlier one delivered its body.
C9_Witness ==
  /\ home.mounted
  /\ lastOp.op = "parseBody"
  /\ lastOp.mount < home.id
  /\ settled # <<>>
  /\ settled[1].kind = "failed"

\* C10: selectTheme leaves the page and the mounted home view's products,
\* loading and error unchanged and issues no request, also when it switches
\* between theme2 and another theme; navigate leaves the theme and the
\* persisted value unchanged.
C10_ThemeAndPageIndependent ==
  [][/\ SelectStep
          => /\ currentPage' = currentPage
             /\ home' = home
             /\ requests' = requests
             /\ issued' = issued
             /\ mountCount' = mountCount
     /\ (FlushStep /\ lastOp.op = "selectTheme")
          => /\ home' = home
             /\ requests' = requests
             /\ issued' = issued
             /\ currentPage' = currentPage
     /\ NavigateStep
          => /\ theme' = theme
             /\ store' = store
             /\ persistPending' = persistPending
     /\ (FlushStep /\ lastOp.op = "navigate")
          => /\ theme' = theme
             /\ store' = store]_vars

\* C10 witness: theme2 was selected over another theme while the home view
\* showed the products of its response.
C10_Witness ==
  /\ lastOp.op = "selectTheme"
  /\ theme = "theme2"
  /\ persistPending
  /\ store # <<"theme2">>
  /\ home.mounted
  /\ Len(home.products) = MaxProducts
  /\ View.layout = "two-column"
\* C11, state part: when ThemeProvider's effect is not pending, the key
\* holds the current theme.
C11_StoreIsTheme ==
  ~persistPending => store = <<theme>>

\* C11, step part: the key is written only by the pending effect, with the
\* theme the cell holds; the write after a load over an absent or empty key
\* stores the default with no selection made; a theme change leaves in the
\* key the value the cell held until the effect has run.
C11_StoreStep ==
  /\ store' # store
       => /\ persistPending
          /\ ~persistPending'
          /\ theme' = theme
          /\ store' = <<theme>>
  /\ (FlushStep /\ persistPending) => store' = <<theme>>
  /\ (FlushStep /\ lastOp.op \in {"start", "reload"} /\ ~Truthy(store))
       => (store' = <<"theme1">> /\ theme' = "theme1")
  /\ (SelectStep /\ theme' # theme)
       => (persistPending' /\ store' = <<theme>>)
  /\ (SelectStep /\ theme' = theme) => ~persistPending'

\* C11: in every state in which no persist step is pending, the value under
\* the persistent store key equals the current theme: the store is written
\* once after startup and again after every theme change, and never with a
\* value the theme cell has not held.
C11_StoreFollowsTheme ==
  []C11_StoreIsTheme /\ [][C11_StoreStep]_vars

\* C11 witness: theme3 was the last selection, no effect is pending and the
\* key holds theme3.
C11_Witness ==
  /\ lastOp.op = "selectTheme"
  /\ selected = <<"theme3">>
  /\ ~persistPending
  /\ theme = "theme3"
  /\ store = <<"theme3">>

====
